---- MODULE Spec2Model ----
(***************************************************************************)
(* Model of the HTTP query handlers of the Kismet device tracker           *)
(* (devicetracker_httpd.cc): Httpd_VerifyPath, Httpd_CreateStreamResponse  *)
(* and Httpd_PostComplete, running on request threads over the device      *)
(* store (tracked_vec, tracked_map, tracked_mac_multimap) under the        *)
(* structural lock devicelist_mutex and the per-record locks device_mutex. *)
(***************************************************************************)
EXTENDS Integers, Sequences, FiniteSets, TLC

(***************************************************************************)
(* Bounds of the model.                                                    *)
(***************************************************************************)
\* number of device records ever inserted, when two request threads run
MaxDevsConc == 2
\* number of device records ever inserted, when one request thread runs
MaxDevs == 3
\* last-seen timestamps range over 1..MaxTime
MaxTime == 2
\* the wall clock read by time(0) in the last-time handlers
Now == 3

(***************************************************************************)
(* Program constants.                                                      *)
(***************************************************************************)
\* largest page length a datatable request may ask for
MaxPageLength == 200
\* page length used when the requested one is out of range
DefaultPageLength == 50
Threads == {"t1", "t2"}
Writer == "w"
NoOwner == "none"

VARIABLES
    scen,                  \* the requests served: "conc", "path" or "page"
    tracked_vec,           \* the ordered sequence of records
    tracked_map,           \* primary index: the keys present
    tracked_mac_multimap,  \* address index: mac -> records in insertion order
    last_time,             \* last-seen field of every record
    username,              \* name field of every record, "" until one is set
    ndevs,                 \* number of records inserted so far
    devicelist_mutex,      \* owner of the structural lock
    device_mutex,          \* owner of each record lock
    wdev,                  \* record whose lock the writer holds, 0 if none
    pc,                    \* position of every request thread
    req,                   \* the request a thread is handling
    loc,                   \* the handler's local variables
    resp,                  \* the response produced so far
    obs                    \* what the handler did so far (history)

vars == <<scen, tracked_vec, tracked_map, tracked_mac_multimap, last_time, username, ndevs,
          devicelist_mutex, device_mutex, wdev, pc, req, loc, resp, obs>>

storeVars == <<tracked_vec, tracked_map, tracked_mac_multimap, last_time, username, ndevs>>
lockVars == <<devicelist_mutex, device_mutex>>

Devs == 1 .. MaxDevs
Times == 1 .. MaxTime
Macs == {1, 2}

\* the hardware address of record d: records 1 and 2 share an address
MacOf(d) == IF d <= 2 THEN 1 ELSE 2

\* the last-seen time record d is inserted with: 2, 1, 2, 1 ... when MaxTime
\* is 2, so that some records tie and some differ
FirstSeen(d) == 1 + (d % MaxTime)

(***************************************************************************)
(* Sequence helpers.                                                       *)
(***************************************************************************)
Range(s) == {s[i] : i \in 1 .. Len(s)}

SeqRemove(s, d) == SelectSeq(s, LAMBDA x : x # d)

\* s[from+1 .. to], the elements at the C++ positions [from, to)
Slice(s, from, to) == IF to <= from THEN <<>> ELSE SubSeq(s, from + 1, to)


(***************************************************************************)
(* Requests.  A request is the method, the tokens of the path, the body    *)
(* and the form variables of one HTTP connection.                          *)
(***************************************************************************)
Suffixes == {"json", "ekjson", "xml"}
Fields == {"last_time", "mac"}

\* /phy/all_phys.json, no body
BaseReq ==
    [method |-> "GET", ep |-> "phy", short |-> FALSE,
     key |-> 1, mac |-> 1, ts |-> 0, tsok |-> TRUE,
     target |-> "device", suffix |-> "json", fpath |-> "none",
     body |-> "ok", fields |-> <<>>, regex |-> 0, wrapper |-> "",
     datatable |-> FALSE, has_start |-> FALSE, start |-> 0,
     has_length |-> FALSE, length |-> 0, draw |-> 0,
     search |-> 0, searchable |-> <<>>,
     has_order |-> FALSE, order_col |-> 0, has_dir |-> FALSE, order_dir |-> "desc",
     session |-> FALSE]

\* the value of record d at the resolved path of field f
FieldVal(d, f) == IF f = "last_time" THEN last_time[d] ELSE MacOf(d)

(***************************************************************************)
(* Collaborators whose code is outside devicetracker_httpd.cc.             *)
(***************************************************************************)
\* Httpd_CanSerialize: a serializer is registered for the token's suffix.
\* The handlers compare ".ekjson" explicitly because no serializer is
\* registered for it.
Httpd_CanSerialize(suffix) == suffix = "json"

\* TrackedDeviceKey::get_error and mac_addr::error: key 0 and mac 0 stand
\* for strings that do not parse
KeyError(key) == key = 0
MacError(mac) == mac = 0

\* FetchDevice: the record of the key under devicelist_mutex, 0 for NULL
FetchDevice(key) == IF key \in tracked_map THEN key ELSE 0

\* get_child_path on a record: "missing" names a field no record has
ChildPathFound(fpath) == fpath # "missing"

\* devicetracker_pcre_worker: the regex of the fixtures matches the text of
\* the address field
PcreMatch(d, regex) == MacOf(d) = regex

\* devicetracker_stringmatch_worker: substring match over the searched
\* paths, which looks at string and address fields only
StringMatch(d, search, paths) ==
    \E i \in 1 .. Len(paths) : paths[i] = "mac" /\ MacOf(d) = search

(***************************************************************************)
(* Httpd_VerifyPath.  Each operator gives the answer of one branch and     *)
(* whether the branch got as far as taking devicelist_mutex and reading an *)
(* index (local_demand_locker takes the lock at lock(), not when it is     *)
(* constructed).                                                           *)
(***************************************************************************)
Reject == [ok |-> FALSE, lock |-> FALSE]
Accept == [ok |-> TRUE, lock |-> FALSE]
Locked(ok) == [ok |-> ok, lock |-> TRUE]

\* GET /devices/all_devices.ekjson is compared whole, suffix included
VerifyGetAllDevices(r) ==
    IF r.suffix = "ekjson" THEN Accept ELSE Reject

\* GET /phy/all_phys and /phy/all_phys_dt
VerifyGetPhy(r) ==
    IF Httpd_CanSerialize(r.suffix) THEN Accept ELSE Reject

\* GET /devices/by-key/<key>/<target>.<suffix>[/<field path>]
VerifyGetByKey(r) ==
    IF r.short \/ KeyError(r.key) THEN Reject
    ELSE IF ~Httpd_CanSerialize(r.suffix) THEN Reject
    ELSE IF FetchDevice(r.key) = 0 THEN Locked(FALSE)
    ELSE IF r.target = "device" THEN Locked(ChildPathFound(r.fpath))
    ELSE Locked(FALSE)

\* a by-mac branch whose locker takes the lock when it is constructed
VerifyByMacEagerLock(r) ==
    IF r.short THEN Locked(FALSE)
    ELSE IF ~Httpd_CanSerialize(r.suffix) THEN Locked(FALSE)
    ELSE IF MacError(r.mac) THEN Locked(FALSE)
    ELSE Locked(Len(tracked_mac_multimap[r.mac]) > 0)

\* GET and POST /devices/by-mac/<mac>/<target>.<suffix>
VerifyByMac(r) ==
    IF r.short THEN Reject
    ELSE IF ~Httpd_CanSerialize(r.suffix) THEN Reject
    ELSE IF MacError(r.mac) THEN Reject
    ELSE Locked(Len(tracked_mac_multimap[r.mac]) > 0)

\* GET /devices/last-time/<ts>/<target>.<suffix>
VerifyGetLastTime(r) ==
    IF r.short \/ ~r.tsok THEN Reject
    ELSE IF r.target = "devices" /\ r.suffix = "ekjson" THEN Accept
    ELSE IF Httpd_CanSerialize(r.suffix) THEN Accept ELSE Reject

\* POST /devices/summary/<target>.<suffix>
VerifyPostSummary(r) ==
    IF r.short THEN Reject
    ELSE IF Httpd_CanSerialize(r.suffix) THEN Accept ELSE Reject

\* POST /devices/last-time/<ts>/<target>.<suffix>
VerifyPostLastTime(r) ==
    IF r.short \/ ~r.tsok THEN Reject
    ELSE IF Httpd_CanSerialize(r.suffix) THEN Accept ELSE Reject

\* POST /devices/by-key/<key>/<target>.<suffix>
VerifyPostByKey(r) ==
    IF r.short \/ KeyError(r.key) THEN Reject
    ELSE IF ~Httpd_CanSerialize(r.suffix) THEN Reject
    ELSE IF r.key \notin tracked_map THEN Locked(FALSE)
    ELSE Locked(r.target \in {"device", "set_name"})

VerifyPath(r) ==
    IF r.method = "GET" THEN
        CASE r.ep = "all_devices" -> VerifyGetAllDevices(r)
          [] r.ep = "phy"         -> VerifyGetPhy(r)
          [] r.ep = "by-key"      -> VerifyGetByKey(r)
          [] r.ep = "by-mac"      -> VerifyByMac(r)
          [] r.ep = "last-time"   -> VerifyGetLastTime(r)
          [] OTHER                -> Reject
    ELSE
        CASE r.ep = "summary"     -> VerifyPostSummary(r)
          [] r.ep = "last-time"   -> VerifyPostLastTime(r)
          [] r.ep = "by-key"      -> VerifyPostByKey(r)
          [] r.ep = "by-mac"      -> VerifyByMac(r)
          [] OTHER                -> Reject

(***************************************************************************)
(* The datatable parameters of a summary request.                          *)
(***************************************************************************)
\* values an int that was never assigned may hold
UninitInts == {-1, 0, 1, MaxPageLength + 1}

\* a length check that forgets the upper limit
DtLengthNoMax(in_dt_length) ==
    IF in_dt_length <= 0 THEN DefaultPageLength ELSE in_dt_length

\* dt_length from the length parameter
DtLength(in_dt_length) ==
    IF in_dt_length <= 0 \/ in_dt_length > MaxPageLength
    THEN DefaultPageLength ELSE in_dt_length

\* dt_start from the start parameter
DtStart(in_dt_start) == IF in_dt_start < 0 THEN 0 ELSE in_dt_start

\* the columns[ci][searchable] loop: the resolved paths of the columns
\* flagged "true", up to the first column whose flag is absent
RECURSIVE SearchPaths(_, _)
SearchPaths(r, ci) ==
    IF ci > Len(r.fields) THEN <<>>
    ELSE IF r.searchable[ci] = "absent" THEN <<>>
    ELSE IF r.searchable[ci] = "true"
         THEN <<r.fields[ci]>> \o SearchPaths(r, ci + 1)
         ELSE SearchPaths(r, ci + 1)

DtSearchPaths(r) == IF r.search # 0 THEN SearchPaths(r, 1) ELSE <<>>

\* dt_order_col after the range check against summary_vec.size()
DtOrderCol(r) ==
    IF ~r.has_order THEN -1
    ELSE IF r.order_col >= Len(r.fields) THEN -1 ELSE r.order_col

\* dt_order_dir and dt_order_field are set only when order[0][dir] is sent
DtOrderDir(r) ==
    IF DtOrderCol(r) >= 0 /\ r.has_dir /\ r.order_dir = "asc" THEN 1 ELSE 0

DtOrderField(r) ==
    IF DtOrderCol(r) >= 0 /\ r.has_dir THEN r.fields[DtOrderCol(r) + 1] ELSE ""

\* the locals of the summary branch once the form variables are decoded
DtDecode(r, in_dt_start, in_dt_length) ==
    IF r.datatable
    THEN [dt_start |-> DtStart(in_dt_start), dt_length |-> DtLength(in_dt_length),
          dt_order_col |-> DtOrderCol(r), dt_order_dir |-> DtOrderDir(r),
          dt_order_field |-> DtOrderField(r), dt_search_paths |-> DtSearchPaths(r)]
    ELSE [dt_start |-> 0, dt_length |-> 0,
          dt_order_col |-> -1, dt_order_dir |-> 0,
          dt_order_field |-> "", dt_search_paths |-> <<>>]

(***************************************************************************)
(* Sorting and the page slice.                                             *)
(***************************************************************************)
\* operator< of two elements found by GetTrackerElementPath: by value; an
\* empty path finds no element and nothing is less than nothing
ElemLess(a, b, field) ==
    IF field = "" THEN FALSE ELSE FieldVal(a, field) < FieldVal(b, field)

\* a comparator that also answers true for equal values
SortLessOrEqual(a, b, field, dir) ==
    IF dir = 0 THEN ~ElemLess(b, a, field) ELSE ~ElemLess(a, b, field)

\* the comparator handed to kismet__stable_sort
SortLess(a, b, field, dir) ==
    IF dir = 0 THEN ElemLess(a, b, field) ELSE ElemLess(b, a, field)

\* x put into the sorted sequence s behind every element not greater than it
InsertSorted(x, s, field, dir) ==
    LET before == {i \in 1 .. Len(s) : SortLess(x, s[i], field, dir)}
        pos == IF before = {} THEN Len(s) + 1
               ELSE CHOOSE i \in before : \A j \in before : i <= j
    IN  SubSeq(s, 1, pos - 1) \o <<x>> \o SubSeq(s, pos, Len(s))

RECURSIVE StableSort(_, _, _)
StableSort(s, field, dir) ==
    IF s = <<>> THEN <<>>
    ELSE InsertSorted(s[Len(s)], StableSort(SubSeq(s, 1, Len(s) - 1), field, dir),
                      field, dir)

\* the candidates after the optional sort
SortCandidates(s, d) ==
    IF d.dt_order_col >= 0 THEN StableSort(s, d.dt_order_field, d.dt_order_dir)
    ELSE s

\* a range check that keeps a start beyond the candidates
PageStartNoReset(n, dt_start) == dt_start

\* "Check DT ranges"
PageStart(n, dt_start) == IF dt_start >= n THEN 0 ELSE dt_start

\* "Set the iterator endpoint for our length".  The sum is an unsigned int
\* that cannot wrap: dt_start is a non-negative int and dt_length is at
\* most MaxPageLength.
PageEnd(n, dt_start, dt_length) ==
    IF dt_length = 0 \/ dt_length + dt_start >= n
    THEN n ELSE dt_start + dt_length

\* a count that takes the page for the candidates
RecordsFilteredOfPage(s, d) ==
    LET st == PageStart(Len(s), d.dt_start)
    IN  Len(Slice(s, st, PageEnd(Len(s), st, d.dt_length)))

\* dt_filter_elem->set(size of the candidate vector)
RecordsFiltered(s, d) == Len(s)

\* the records between vi and ei
Page(s, d) ==
    LET st == PageStart(Len(s), d.dt_start)
    IN  Slice(s, st, PageEnd(Len(s), st, d.dt_length))

(***************************************************************************)
(* Initial state: an empty store, every lock free, every thread idle.      *)
(***************************************************************************)
NoLocals ==
    [cands |-> <<>>, todo |-> <<>>, phase |-> "", lock_vec |-> <<>>, outdevs |-> <<>>,
     dt |-> DtDecode(BaseReq, 0, 0)]

NoResponse ==
    [httpcode |-> 200, body |-> "", data |-> <<>>, wrap |-> "",
     draw |-> 0, recordsTotal |-> -1, recordsFiltered |-> -1]

NoHistory ==
    [verified |-> FALSE, vlock |-> FALSE, changed |-> FALSE, under |-> FALSE,
     gone |-> FALSE, scanned |-> <<>>]

InitStore ==
    /\ tracked_vec = <<>>
    /\ tracked_map = {}
    /\ tracked_mac_multimap = [m \in Macs |-> <<>>]
    /\ last_time = [d \in Devs |-> 0]
    /\ username = [d \in Devs |-> ""]
    /\ ndevs = 0

InitThreads ==
    /\ devicelist_mutex = NoOwner
    /\ device_mutex = [d \in Devs |-> NoOwner]
    /\ wdev = 0
    /\ pc = [t \in Threads |-> "idle"]
    /\ req = [t \in Threads |-> BaseReq]
    /\ loc = [t \in Threads |-> NoLocals]
    /\ resp = [t \in Threads |-> NoResponse]
    /\ obs = [t \in Threads |-> NoHistory]

Init == scen = "conc" /\ InitStore /\ InitThreads

InitPath == scen = "path" /\ InitStore /\ InitThreads

InitPage == scen = "page" /\ InitStore /\ InitThreads

ActiveThreads == IF scen = "conc" THEN Threads ELSE {"t1"}
DevLimit == IF scen = "conc" THEN MaxDevsConc ELSE MaxDevs

(***************************************************************************)
(* The store's mutators, which run outside the handlers: each holds        *)
(* devicelist_mutex for the whole update of the three structures.          *)
(***************************************************************************)
\* every handler between validation and return sees that the store changed
NoteChange == [t \in Threads |-> IF pc[t] = "idle" THEN obs[t]
                                  ELSE [obs[t] EXCEPT !.changed = TRUE]]

\* with two request threads the store is mutated between requests only;
\* with one request thread the mutators run at any time
MutatorMayRun == scen = "conc" => \A t \in Threads : pc[t] = "idle"

Insert ==
    /\ ndevs < DevLimit
    /\ MutatorMayRun
    /\ devicelist_mutex = NoOwner
    /\ LET d == ndevs + 1 IN
        /\ tracked_vec' = Append(tracked_vec, d)
        /\ tracked_map' = tracked_map \cup {d}
        /\ tracked_mac_multimap' =
               [tracked_mac_multimap EXCEPT ![MacOf(d)] = Append(@, d)]
        /\ last_time' = [last_time EXCEPT ![d] = FirstSeen(d)]
        /\ username' = [username EXCEPT ![d] = ""]
        /\ ndevs' = d
    /\ obs' = NoteChange
    /\ UNCHANGED <<scen, lockVars, wdev, pc, req, loc, resp>>

Remove(d) ==
    /\ d \in tracked_map
    /\ MutatorMayRun
    /\ devicelist_mutex = NoOwner
    /\ tracked_vec' = SeqRemove(tracked_vec, d)
    /\ tracked_map' = tracked_map \ {d}
    /\ tracked_mac_multimap' =
           [tracked_mac_multimap EXCEPT ![MacOf(d)] = SeqRemove(@, d)]
    /\ obs' = NoteChange
    /\ UNCHANGED <<scen, last_time, username, ndevs, lockVars, wdev, pc, req, loc, resp>>

\* a writer of one record's fields takes that record's lock ...
WriterLock(d) ==
    /\ wdev = 0
    /\ d \in tracked_map
    /\ device_mutex[d] = NoOwner
    /\ device_mutex' = [device_mutex EXCEPT ![d] = Writer]
    /\ wdev' = d
    /\ UNCHANGED <<scen, storeVars, devicelist_mutex, pc, req, loc, resp, obs>>

\* ... updates the record and releases the lock
WriterUnlock(tm) ==
    /\ wdev # 0
    /\ last_time' = [last_time EXCEPT ![wdev] = tm]
    /\ device_mutex' = [device_mutex EXCEPT ![wdev] = NoOwner]
    /\ wdev' = 0
    /\ UNCHANGED <<scen, tracked_vec, tracked_map, tracked_mac_multimap, username, ndevs,
                   devicelist_mutex, pc, req, loc, resp, obs>>

(***************************************************************************)
(* The request handlers.  A thread validates the request with              *)
(* Httpd_VerifyPath and, when that answers true, produces the response     *)
(* with Httpd_CreateStreamResponse (GET) or Httpd_PostComplete (POST).     *)
(* A step ends where the code may block on a lock.                         *)
(***************************************************************************)
Set(f, t, v) == [f EXCEPT ![t] = v]

\* a return that forgets the lockers kept on lock_vec
ReleaseListLockOnly(t) ==
    /\ devicelist_mutex' = IF devicelist_mutex = t THEN NoOwner ELSE devicelist_mutex
    /\ device_mutex' = device_mutex

\* the destructors of the lockers at return
ReleaseLocks(t) ==
    /\ devicelist_mutex' = IF devicelist_mutex = t THEN NoOwner ELSE devicelist_mutex
    /\ device_mutex' = [d \in Devs |-> IF device_mutex[d] = t THEN NoOwner
                                        ELSE device_mutex[d]]

\* return having written `body` with status `code`, no record serialized
ReturnWith(t, code, body) ==
    /\ resp' = Set(resp, t, [resp[t] EXCEPT !.httpcode = code, !.body = body])
    /\ pc' = Set(pc, t, "done")
    /\ ReleaseLocks(t)

\* return without writing anything
ReturnSilent(t) ==
    /\ pc' = Set(pc, t, "done")
    /\ ReleaseLocks(t)
    /\ UNCHANGED resp

\* a cutoff that takes a negative timestamp as it stands
CutoffAbsolute(r) == r.ts

\* lastts: a negative timestamp counts back from the current time
Cutoff(r) == IF r.ts < 0 THEN Now + r.ts ELSE r.ts

\* the handler passes the record to SummarizeTrackerElement once locked
Summarizes(r) == ~(r.ep = "by-key" /\ r.target # "device")

Httpd_VerifyPath(t) ==
    /\ pc[t] = "verify"
    /\ LET v == VerifyPath(req[t]) IN
        /\ v.lock => devicelist_mutex = NoOwner
        /\ obs' = Set(obs, t, [NoHistory EXCEPT !.verified = v.ok, !.vlock = v.lock])
        /\ pc' = Set(pc, t, IF ~v.ok THEN "done"
                            ELSE IF req[t].method = "GET" THEN "create" ELSE "post")
    /\ UNCHANGED <<scen, storeVars, lockVars, wdev, req, loc, resp>>

Httpd_CreateStreamResponse(t) ==
    /\ pc[t] = "create"
    /\ LET r == req[t]
           next == CASE r.ep = "all_devices" ->
                           IF r.suffix = "ekjson" THEN "scan" ELSE "done"
                     [] r.ep = "phy" ->
                           IF Httpd_CanSerialize(r.suffix) THEN "serialize" ELSE "done"
                     [] r.ep \in {"by-key", "by-mac"} ->
                           IF ~r.short /\ Httpd_CanSerialize(r.suffix)
                           THEN "lock_list" ELSE "done"
                     [] r.ep = "last-time" ->
                           IF ~r.short /\ r.tsok /\ Httpd_CanSerialize(r.suffix)
                           THEN "scan" ELSE "done"
                     [] OTHER -> "done"
       IN  pc' = Set(pc, t, next)
    /\ UNCHANGED <<scen, storeVars, lockVars, wdev, req, loc, resp, obs>>

\* TrackerElementSummary resolves the field specification when it is
\* constructed: an unknown segment is a resolution error raised to the
\* handler ("badfield" stands for a fields list with such a segment)
ResolveFails(r) == r.body = "badfield"

\* a decode that lets a malformed rename pair pass
BodyErrorNoRenameCheck(r) ==
    CASE r.body = "missing"    -> "Invalid request: Missing data"
      [] r.body = "unparsable" -> "Invalid request: parse error"
      [] ResolveFails(r)       -> "Invalid request: unknown field"
      [] OTHER                 -> ""

\* a decode whose handler for the errors of the fields list is missing
BodyErrorNoResolveCheck(r) ==
    CASE r.body = "missing"    -> "Invalid request: Missing data"
      [] r.body = "unparsable" -> "Invalid request: parse error"
      [] r.body = "badrename"  -> "Invalid request: Expected field, rename"
      [] OTHER                 -> ""

\* the decode of the structured body and of its fields list: the message
\* written when it fails, "" when it succeeds
BodyError(r) ==
    CASE r.body = "missing"    -> "Invalid request: Missing data"
      [] r.body = "unparsable" -> "Invalid request: parse error"
      [] r.body = "badrename"  -> "Invalid request: Expected field, rename"
      [] ResolveFails(r)       -> "Invalid request: unknown field"
      [] OTHER                 -> ""

Httpd_PostComplete(t) ==
    /\ pc[t] = "post"
    /\ LET r == req[t] IN
        IF r.short THEN
            ReturnWith(t, 400, "Invalid request") /\ UNCHANGED loc
        ELSE IF BodyError(r) # "" THEN
            ReturnWith(t, 400, BodyError(r)) /\ UNCHANGED loc
        ELSE IF r.ep \in {"by-mac", "by-key"} THEN
            IF ~Httpd_CanSerialize(r.suffix)
            THEN ReturnWith(t, 400, "Invalid request") /\ UNCHANGED loc
            ELSE /\ pc' = Set(pc, t, IF r.ep = "by-mac" THEN "lock_list" ELSE "fetch")
                 /\ UNCHANGED <<lockVars, loc, resp>>
        ELSE IF r.ep = "summary" THEN
            \E in_dt_start \in (IF r.has_start THEN {r.start} ELSE UninitInts),
               in_dt_length \in (IF r.has_length THEN {r.length} ELSE UninitInts) :
                LET d == DtDecode(r, in_dt_start, in_dt_length) IN
                /\ loc' = Set(loc, t, [loc[t] EXCEPT !.dt = d])
                /\ resp' = Set(resp, t,
                       IF r.datatable
                       THEN [resp[t] EXCEPT !.wrap = "datatable", !.draw = r.draw,
                                            !.recordsTotal = Len(tracked_vec)]
                       ELSE resp[t])
                /\ pc' = Set(pc, t, IF r.regex # 0 \/ d.dt_search_paths # <<>>
                                    THEN "scan" ELSE "lock_list")
                /\ UNCHANGED lockVars
        ELSE IF r.ep = "last-time" THEN
            IF ~r.tsok \/ ~Httpd_CanSerialize(r.suffix)
            THEN ReturnWith(t, 400, "Invalid request") /\ UNCHANGED loc
            ELSE pc' = Set(pc, t, "scan") /\ UNCHANGED <<lockVars, loc, resp>>
        ELSE
            ReturnWith(t, 200, "OK") /\ UNCHANGED loc
    /\ UNCHANGED <<scen, storeVars, wdev, req, obs>>

\* go on to lock the records of `todo`, or straight to `after` when none
LockThen(t, l, todo, phase, after) ==
    /\ loc' = Set(loc, t, [l EXCEPT !.todo = todo, !.phase = phase])
    /\ pc' = Set(pc, t, IF todo = <<>> THEN after ELSE "lock_dev")

Gone(t) == obs' = Set(obs, t, [obs[t] EXCEPT !.gone = TRUE])

\* a lookup that stops at the first record of the address
EqualRangeFirst(mac) ==
    IF tracked_mac_multimap[mac] = <<>> THEN <<>>
    ELSE <<Head(tracked_mac_multimap[mac])>>

\* tracked_mac_multimap.equal_range(mac): every record under the address
EqualRange(mac) == tracked_mac_multimap[mac]

\* local_locker lock(&devicelist_mutex) and the code that follows it up to
\* the first record lock or the serialization
LockDeviceList(t) ==
    /\ pc[t] = "lock_list"
    /\ devicelist_mutex = NoOwner
    /\ LET r == req[t]
           l == loc[t]
           hold == /\ devicelist_mutex' = t
                   /\ UNCHANGED device_mutex
       IN
        IF r.method = "GET" /\ r.ep = "by-key" THEN
            IF r.key \notin tracked_map THEN
                /\ ReturnWith(t, 200, "Invalid device key") /\ Gone(t)
                /\ UNCHANGED <<loc, tracked_vec>>
            ELSE IF r.target = "device" /\ ChildPathFound(r.fpath) THEN
                /\ loc' = Set(loc, t, [l EXCEPT !.outdevs = <<r.key>>])
                /\ pc' = Set(pc, t, "serialize")
                /\ hold /\ UNCHANGED <<resp, obs, tracked_vec>>
            ELSE
                ReturnSilent(t) /\ UNCHANGED <<loc, obs, tracked_vec>>
        ELSE IF r.method = "GET" /\ r.ep = "by-mac" THEN
            IF MacError(r.mac) THEN
                ReturnSilent(t) /\ UNCHANGED <<loc, obs, tracked_vec>>
            ELSE
                /\ loc' = Set(loc, t, [l EXCEPT !.outdevs = EqualRange(r.mac)])
                /\ pc' = Set(pc, t, "serialize")
                /\ obs' = Set(obs, t, [obs[t] EXCEPT
                                         !.gone = tracked_mac_multimap[r.mac] = <<>>])
                /\ hold /\ UNCHANGED <<resp, tracked_vec>>
        ELSE IF r.ep = "by-mac" THEN
            IF MacError(r.mac) THEN
                /\ ReturnWith(t, 400, "Invalid request")
                /\ UNCHANGED <<loc, obs, tracked_vec>>
            ELSE IF Len(tracked_mac_multimap[r.mac]) = 0 THEN
                /\ ReturnWith(t, 400, "Invalid request") /\ Gone(t)
                /\ UNCHANGED <<loc, tracked_vec>>
            ELSE IF r.target = "devices" THEN
                /\ LockThen(t, l, EqualRange(r.mac), "page", "serialize")
                /\ hold /\ UNCHANGED <<resp, obs, tracked_vec>>
            ELSE
                /\ ReturnWith(t, 400, "Invalid request")
                /\ UNCHANGED <<loc, obs, tracked_vec>>
        ELSE
            \* the full-scan branch of the summary: tracked_vec is sorted in
            \* place; the locker lives to the end of the branch's block, so
            \* an empty page leaves the block with the lock released
            LET sorted == SortCandidates(tracked_vec, l.dt) IN
            /\ tracked_vec' = sorted
            /\ resp' = Set(resp, t,
                   IF r.datatable
                   THEN [resp[t] EXCEPT
                            !.recordsFiltered = RecordsFiltered(tracked_vec, l.dt)]
                   ELSE resp[t])
            /\ LockThen(t, [l EXCEPT !.cands = sorted], Page(sorted, l.dt),
                        "page", "serialize")
            /\ IF Page(sorted, l.dt) = <<>> THEN UNCHANGED lockVars ELSE hold
            /\ obs' = Set(obs, t, [obs[t] EXCEPT !.scanned = tracked_vec])
    /\ UNCHANGED <<scen, tracked_map, tracked_mac_multimap, last_time, username, ndevs,
                   wdev, req>>

\* POST by-key: FetchDevice takes and releases devicelist_mutex
PostByKeyFetch(t) ==
    /\ pc[t] = "fetch"
    /\ devicelist_mutex = NoOwner
    /\ IF FetchDevice(req[t].key) = 0
       THEN ReturnWith(t, 400, "Invalid request") /\ Gone(t) /\ UNCHANGED loc
       ELSE /\ LockThen(t, loc[t], <<FetchDevice(req[t].key)>>, "page", "serialize")
            /\ UNCHANGED <<lockVars, resp, obs>>
    /\ UNCHANGED <<scen, storeVars, wdev, req>>

\* a regex stage that scans the store instead of the survivors
RegexDevsOfStore(r, timedevs) ==
    IF r.regex # 0 THEN SelectSeq(tracked_vec, LAMBDA d : PcreMatch(d, r.regex))
    ELSE timedevs

\* regexdevs of the POST last-time pipeline: the regex worker runs over
\* timedevs when a regex was sent, otherwise regexdevs is timedevs
RegexDevs(r, timedevs) ==
    IF r.regex # 0 THEN SelectSeq(timedevs, LAMBDA d : PcreMatch(d, r.regex))
    ELSE timedevs

\* an export worker that writes the first record only
EkjsonWorkerOnce(stream, d) == IF stream = <<>> THEN <<d>> ELSE stream

\* the worker of the export all_devices.ekjson: serial.serialize(d, stream)
\* and a newline; `stream` is the sequence of documents written so far
EkjsonWorker(stream, d) == Append(stream, d)

\* the export worker applied to the records of s in order
RECURSIVE Export(_)
Export(s) ==
    IF s = <<>> THEN <<>>
    ELSE EkjsonWorker(Export(SubSeq(s, 1, Len(s) - 1)), s[Len(s)])

\* MatchOnDevices: the scan copies tracked_vec under devicelist_mutex and
\* the worker keeps the records it matches; no record lock is taken
MatchOnDevices(t) ==
    /\ pc[t] = "scan"
    /\ devicelist_mutex = NoOwner
    /\ LET r == req[t]
           l == loc[t]
           timedevs == SelectSeq(tracked_vec, LAMBDA d : last_time[d] > Cutoff(r))
           pcre(s) == SelectSeq(s, LAMBDA d : PcreMatch(d, r.regex))
           strm(s) == SelectSeq(s, LAMBDA d :
                                 StringMatch(d, r.search, l.dt.dt_search_paths))
       IN
        IF r.method = "GET" /\ r.ep = "all_devices" THEN
            \* the worker writes one line per record while the scan runs, and
            \* the handler returns
            /\ resp' = Set(resp, t, [resp[t] EXCEPT !.body = "lines",
                                                    !.data = Export(tracked_vec)])
            /\ pc' = Set(pc, t, "done")
            /\ UNCHANGED loc
        ELSE IF r.method = "GET" THEN
            /\ loc' = Set(loc, t, [l EXCEPT !.outdevs = timedevs])
            /\ pc' = Set(pc, t, "serialize")
            /\ UNCHANGED resp
        ELSE IF r.ep = "summary" THEN
            LET m == IF r.regex # 0 THEN pcre(tracked_vec) ELSE strm(tracked_vec)
            IN  LockThen(t, [l EXCEPT !.cands = m], m, "all", "page") /\ UNCHANGED resp
        ELSE
            LET m == RegexDevs(r, timedevs)
            IN  LockThen(t, [l EXCEPT !.cands = m], m, "page", "serialize")
                /\ UNCHANGED resp
    /\ obs' = Set(obs, t, [obs[t] EXCEPT !.scanned =
                  IF req[t].method = "POST" THEN loc'[t].cands ELSE @])
    /\ UNCHANGED <<scen, storeVars, lockVars, wdev, req>>

\* new local_locker(&device_mutex) pushed on lock_vec, and the summary of
\* the record when the loop is the one that builds the output
LockDevice(t) ==
    /\ pc[t] = "lock_dev"
    /\ LET l == loc[t]
           d == Head(l.todo)
           rest == Tail(l.todo)
       IN
        /\ device_mutex[d] \in {NoOwner, t}
        /\ device_mutex' = [device_mutex EXCEPT ![d] = t]
        /\ loc' = Set(loc, t, [l EXCEPT
               !.todo = rest,
               !.lock_vec = Append(@, d),
               !.outdevs = IF l.phase = "page" /\ Summarizes(req[t])
                           THEN Append(@, d) ELSE @])
        /\ obs' = Set(obs, t, [obs[t] EXCEPT !.under = @ \/ devicelist_mutex = t])
        /\ pc' = Set(pc, t, IF rest # <<>> THEN "lock_dev"
                            ELSE IF l.phase = "all" THEN "page" ELSE "serialize")
        \* the summary's full-scan block ends behind its last record
        /\ devicelist_mutex' =
               IF rest = <<>> /\ req[t].ep = "summary" /\ devicelist_mutex = t
               THEN NoOwner ELSE devicelist_mutex
    /\ UNCHANGED <<scen, storeVars, wdev, req, resp>>

\* the regex and search branches of the summary once the matches are
\* locked: range check, recordsFiltered, sort, slice
Paginate(t) ==
    /\ pc[t] = "page"
    /\ LET r == req[t]
           l == loc[t]
           sorted == SortCandidates(l.cands, l.dt)
           page == Page(sorted, l.dt)
       IN
        /\ resp' = Set(resp, t,
               IF r.datatable
               THEN [resp[t] EXCEPT !.recordsFiltered = RecordsFiltered(l.cands, l.dt)]
               ELSE resp[t])
        /\ IF r.regex # 0
           THEN LockThen(t, [l EXCEPT !.cands = sorted], page, "page", "serialize")
           ELSE /\ loc' = Set(loc, t, [l EXCEPT !.cands = sorted, !.outdevs = page])
                /\ pc' = Set(pc, t, "serialize")
    /\ UNCHANGED <<scen, storeVars, lockVars, wdev, req, obs>>

\* a wrapper step that lets the wrapper name win over the datatable map
ApplyWrapperByName(wrap, wrapper_name) ==
    IF wrapper_name # "" THEN wrapper_name ELSE wrap

\* "Apply wrapper if we haven't applied it already": the name of the map
\* the collection goes under, "" for the bare collection
ApplyWrapper(wrap, wrapper_name) ==
    IF wrap = "" THEN wrapper_name ELSE wrap

\* a set_name branch that writes the name and never looks at the session
SetNameUnchecked(r, names) == [names EXCEPT ![r.key] = "renamed"]

\* the names of the records behind the set_name branch: the branch tests
\* the session and assigns nothing to the record
SetName(r, names) == names

\* entrytracker->Serialize of what was collected, then return
Serialize(t) ==
    /\ pc[t] = "serialize"
    /\ LET r == req[t] IN
        IF r.method = "POST" /\ r.ep = "by-key" /\ r.target # "device" THEN
            /\ username' = IF r.target = "set_name" THEN SetName(r, username)
                            ELSE username
            /\ IF r.target = "set_name" /\ ~r.session
               THEN ReturnSilent(t)
               ELSE ReturnWith(t, 200, "OK")
        ELSE
            /\ UNCHANGED username
            /\ resp' = Set(resp, t, [resp[t] EXCEPT
                   !.body = "serialized",
                   !.data = loc[t].outdevs,
                   !.wrap = IF r.method = "POST" /\ r.ep = "summary"
                            THEN ApplyWrapper(@, r.wrapper) ELSE @])
            /\ pc' = Set(pc, t, "done")
            /\ ReleaseLocks(t)
    /\ UNCHANGED <<scen, tracked_vec, tracked_map, tracked_mac_multimap, last_time,
                   ndevs, wdev, req, loc, obs>>

\* the connection is closed; the thread takes the next request
Return(t) ==
    /\ pc[t] = "done"
    /\ pc' = Set(pc, t, "idle")
    /\ req' = Set(req, t, BaseReq)
    /\ loc' = Set(loc, t, NoLocals)
    /\ resp' = Set(resp, t, NoResponse)
    /\ obs' = Set(obs, t, NoHistory)
    /\ UNCHANGED <<scen, storeVars, lockVars, wdev>>

(***************************************************************************)
(* The requests the threads are given.                                     *)
(***************************************************************************)
Get(ep, target, suffix) ==
    [BaseReq EXCEPT !.method = "GET", !.ep = ep, !.target = target, !.suffix = suffix]

Post(ep, target, suffix) ==
    [BaseReq EXCEPT !.method = "POST", !.ep = ep, !.target = target, !.suffix = suffix,
                    !.fields = <<"last_time">>, !.searchable = <<"false">>]

Req(method, ep, target, suffix) ==
    IF method = "GET" THEN Get(ep, target, suffix) ELSE Post(ep, target, suffix)

\* a datatable summary sorted on its only column
Sorted(r, dir) ==
    [r EXCEPT !.has_order = TRUE, !.order_col = 0, !.has_dir = TRUE, !.order_dir = dir]

\* a datatable summary with start and length sent
Paged(r, start, length) ==
    [r EXCEPT !.datatable = TRUE, !.has_start = TRUE, !.start = start,
              !.has_length = TRUE, !.length = length]

\* a datatable summary searching its only column, the address
Searching(r, search) ==
    [r EXCEPT !.fields = <<"mac">>, !.searchable = <<"true">>, !.search = search]

\* a datatable summary with order[0][column] sent and order[0][dir] not
Ordered(r, col) ==
    [r EXCEPT !.datatable = TRUE, !.has_order = TRUE, !.order_col = col]

SummaryReq == Post("summary", "devices", "json")

\* the requests of two concurrent threads: one of every endpoint
ConcRequests ==
    {Get("all_devices", "all_devices", "ekjson"),
     Get("by-key", "device", "json"),
     Get("by-mac", "devices", "json"),
     Post("by-mac", "devices", "json"),
     Post("by-key", "device", "json"),
     [Post("last-time", "devices", "json") EXCEPT !.ts = 1],
     [SummaryReq EXCEPT !.regex = 1],
     Searching(Paged(SummaryReq, 0, 1), 1),
     Sorted(Paged(SummaryReq, 0, 0), "desc"),
     [SummaryReq EXCEPT !.datatable = TRUE]}

\* paths of every endpoint, well formed or not
PathRequests ==
    {Get(ep, "devices", sfx) : ep \in {"phy", "all_devices", "other"}, sfx \in Suffixes}
    \cup {[Get("by-key", tg, sfx) EXCEPT !.key = k] :
             tg \in {"device", "other"}, sfx \in Suffixes, k \in {0, 1, 2}}
    \cup {[Get("by-key", "device", "json") EXCEPT !.fpath = f, !.short = sh] :
             f \in {"ok", "missing"}, sh \in BOOLEAN}
    \cup {[Req(mt, "by-mac", tg, sfx) EXCEPT !.mac = m] :
             mt \in {"GET", "POST"}, tg \in {"devices", "other"}, sfx \in Suffixes,
             m \in {0, 1, 2}}
    \cup {[Req(mt, "last-time", "devices", sfx) EXCEPT
                 !.ts = ts, !.tsok = ok, !.regex = rx] :
             mt \in {"GET", "POST"}, sfx \in Suffixes, ts \in {-2, 1}, ok \in BOOLEAN,
             rx \in {0, 1}}
    \cup {[Post("by-key", tg, sfx) EXCEPT !.key = k, !.session = se] :
             tg \in {"device", "set_name", "other"}, sfx \in {"json", "xml"},
             k \in {0, 1}, se \in BOOLEAN}
    \cup {[Post("by-mac", "devices", "json") EXCEPT !.body = b] :
             b \in {"missing", "unparsable", "badrename", "badfield"}}
    \cup {[Post(ep, "devices", sfx) EXCEPT !.body = b, !.short = sh, !.regex = rx] :
             ep \in {"summary", "other"}, sfx \in {"json", "xml"},
             b \in {"ok", "missing", "unparsable", "badrename", "badfield"},
             sh \in BOOLEAN,
             rx \in {0, 1}}

\* summaries with every combination of filter, sort and page
PageRequests ==
    LET filtered == {SummaryReq, [SummaryReq EXCEPT !.regex = 1],
                     Searching(SummaryReq, 1)}
        shaped == filtered
                  \cup {[r EXCEPT !.datatable = TRUE] : r \in filtered}
                  \cup {Paged(r, st, ln) : r \in filtered, st \in {-1, 0, 1, 3},
                                           ln \in {0, 1, 2, MaxPageLength + 1}}
        \* a search string with no column flagged, with a regex as well, and
        \* with the flag of the first of two columns not sent
        searches == {[Searching(SummaryReq, 1) EXCEPT !.searchable = <<"false">>],
                     [Searching(SummaryReq, 2) EXCEPT !.regex = 1],
                     [Searching(SummaryReq, 1) EXCEPT
                          !.fields = <<"last_time", "mac">>,
                          !.searchable = <<"absent", "true">>]}
        plain == {SummaryReq, [SummaryReq EXCEPT !.regex = 1]}
    IN  shaped \cup {Sorted(r, dir) : r \in shaped, dir \in {"asc", "desc"}}
        \cup {[r EXCEPT !.datatable = TRUE] : r \in searches}
        \cup {Paged(r, 0, 1) : r \in searches}
        \cup {Ordered(r, 0) : r \in plain}
        \cup {[Sorted(Ordered(r, col), "asc") EXCEPT !.order_col = col] :
                  r \in plain, col \in {-1, 1}}
        \cup {[r EXCEPT !.wrapper = "wrapped", !.datatable = dt, !.draw = 7] :
                  r \in plain, dt \in BOOLEAN}

Requests ==
    CASE scen = "conc" -> ConcRequests
      [] scen = "path" -> PathRequests
      [] OTHER         -> PageRequests

Request(t) ==
    /\ t \in ActiveThreads
    /\ pc[t] = "idle"
    /\ pc' = Set(pc, t, "verify")
    /\ \E r \in Requests : req' = Set(req, t, r)
    /\ UNCHANGED <<scen, storeVars, lockVars, wdev, loc, resp, obs>>

(***************************************************************************)
(* The specifications.                                                     *)
(***************************************************************************)
Next ==
    \/ Insert
    \/ \E d \in Devs : Remove(d)
    \/ \E d \in Devs : WriterLock(d)
    \/ \E tm \in Times : WriterUnlock(tm)
    \/ \E t \in Threads : Request(t)
    \/ \E t \in Threads : Httpd_VerifyPath(t)
    \/ \E t \in Threads : Httpd_CreateStreamResponse(t)
    \/ \E t \in Threads : Httpd_PostComplete(t)
    \/ \E t \in Threads : LockDeviceList(t)
    \/ \E t \in Threads : PostByKeyFetch(t)
    \/ \E t \in Threads : MatchOnDevices(t)
    \/ \E t \in Threads : LockDevice(t)
    \/ \E t \in Threads : Paginate(t)
    \/ \E t \in Threads : Serialize(t)
    \/ \E t \in Threads : Return(t)

\* two request threads, a record writer and the store's mutators
Spec == Init /\ [][Next]_vars

\* one request thread given paths of every endpoint, and the store's mutators
NextPath ==
    \/ Insert
    \/ \E d \in Devs : Remove(d)
    \/ Request("t1")
    \/ Httpd_VerifyPath("t1")
    \/ Httpd_CreateStreamResponse("t1")
    \/ Httpd_PostComplete("t1")
    \/ LockDeviceList("t1")
    \/ PostByKeyFetch("t1")
    \/ MatchOnDevices("t1")
    \/ LockDevice("t1")
    \/ Paginate("t1")
    \/ Serialize("t1")
    \/ Return("t1")

SpecPath == InitPath /\ [][NextPath]_vars

\* one request thread given summary queries, and the store's mutators
NextPage ==
    \/ Insert
    \/ \E d \in Devs : Remove(d)
    \/ Request("t1")
    \/ Httpd_VerifyPath("t1")
    \/ Httpd_PostComplete("t1")
    \/ LockDeviceList("t1")
    \/ MatchOnDevices("t1")
    \/ LockDevice("t1")
    \/ Paginate("t1")
    \/ Serialize("t1")
    \/ Return("t1")

SpecPage == InitPage /\ [][NextPage]_vars

(***************************************************************************)
(* Properties of the lock discipline.                                      *)
(***************************************************************************)
HeldRecords(t) == {d \in Devs : device_mutex[d] = t}

\* the owner of the lock thread t is blocked on, NoOwner when t can run
WaitsFor(t) ==
    IF pc[t] = "lock_dev" /\ device_mutex[Head(loc[t].todo)] \notin {NoOwner, t}
    THEN device_mutex[Head(loc[t].todo)]
    ELSE IF pc[t] \in {"lock_list", "scan", "fetch"} /\ devicelist_mutex # NoOwner
    THEN devicelist_mutex
    ELSE IF pc[t] = "verify" /\ VerifyPath(req[t]).lock /\ devicelist_mutex # NoOwner
    THEN devicelist_mutex
    ELSE NoOwner

\* C1: no handler acquires a record lock (device_mutex) while it holds the
\* structural lock (devicelist_mutex).
C1_NoRecordLockUnderListLock ==
    \A t \in Threads : ~obs[t].under

\* C2: the system is deadlock-free: there is no set of request threads each
\* of which waits for a lock held by a thread of the set.
C2_DeadlockFree ==
    ~ \E S \in SUBSET Threads :
        /\ S # {}
        /\ \A t \in S : WaitsFor(t) \in S

\* C3: a request holds at most one record lock at every instant.
C3_AtMostOneRecordLock ==
    \A t \in Threads : Cardinality(HeldRecords(t)) <= 1

\* C4: a handler that is about to serialize records holds the record lock
\* of every record it serializes.  (The export all_devices.ekjson is left
\* out: it serializes inside the worker that MatchOnDevices runs.)
C4_SerializedUnderRecordLock ==
    \A t \in Threads :
        (pc[t] = "serialize" /\ req[t].ep # "all_devices") =>
            \A d \in Range(loc[t].outdevs) : device_mutex[d] = t

(***************************************************************************)
(* Properties of validation against production.                            *)
(***************************************************************************)
Done(t) == pc[t] = "done"

\* the production phase served the request
Served(t) == resp[t].httpcode = 200 /\ resp[t].body = "serialized"

\* C5: when Httpd_VerifyPath answered true and the store did not change
\* since, the production phase serves the request: no status 400, and a
\* serialized response.  (Read in the claim's favour: the body is well
\* formed, the suffix has a registered serializer and the request is not a
\* set_name write.)
C5_PhasesAgree ==
    \A t \in Threads :
        (/\ Done(t) /\ obs[t].verified /\ ~obs[t].changed
         /\ req[t].body = "ok" /\ Httpd_CanSerialize(req[t].suffix)
         /\ req[t].target # "set_name")
            => Served(t)

\* the path names an output format
NamesFormat(r) ==
    ~r.short /\ r.ep \in {"phy", "by-key", "by-mac", "last-time", "summary"}

\* the codecs of the serializer dispatch: the registered ones and the
\* line-delimited one
SupportedSuffix(suffix) == Httpd_CanSerialize(suffix) \/ suffix = "ekjson"

Validated(t) == pc[t] \notin {"idle", "verify"}

\* C6: for a path that names an output format with an unsupported suffix,
\* Httpd_VerifyPath answers false, whether or not the key or address is in
\* the store, and without having taken devicelist_mutex or read an index.
C6_BadSuffixRejectedBeforeLock ==
    \A t \in Threads :
        (Validated(t) /\ NamesFormat(req[t]) /\ ~SupportedSuffix(req[t].suffix))
            => (~obs[t].verified /\ ~obs[t].vlock /\ Done(t))

\* C6 witness: a by-key or by-mac path with suffix xml whose target is in
\* the store has been rejected.
C6_Witness ==
    \E t \in Threads :
        /\ Done(t) /\ ~obs[t].verified
        /\ req[t].suffix = "xml" /\ ~req[t].short
        /\ \/ req[t].ep = "by-key" /\ req[t].key \in tracked_map
           \/ req[t].ep = "by-mac" /\ ~MacError(req[t].mac)
                                   /\ tracked_mac_multimap[req[t].mac] # <<>>

\* C7: when the key or address that passed validation is gone at production
\* time, every by-key and by-mac endpoint answers status 400 with the
\* message "Invalid request" and emits no record.
C7_GoneIsInvalidRequest ==
    \A t \in Threads :
        (Done(t) /\ obs[t].verified /\ obs[t].gone
                 /\ req[t].ep \in {"by-key", "by-mac"})
            => /\ resp[t].httpcode = 400
               /\ resp[t].body = "Invalid request"
               /\ resp[t].data = <<>>

(***************************************************************************)
(* Properties of the summary query.                                        *)
(***************************************************************************)
\* the thread has answered a summary query with a serialized collection
SummaryDone(t) ==
    Done(t) /\ req[t].ep = "summary" /\ resp[t].body = "serialized"

\* candidates[s : s+l] as the pagination rule states it
ExpectedPage(cands, start, length) ==
    LET n == Len(cands)
        s == IF start >= n THEN 0 ELSE start
        e == IF length = 0 \/ s + length >= n THEN n ELSE s + length
    IN  [from |-> s, to |-> e,
         recs |-> [i \in 1 .. (e - s) |-> cands[s + i]]]

\* the filter of the request, regex before search before none
Branch(t) ==
    IF req[t].regex # 0 THEN "regex"
    ELSE IF loc[t].dt.dt_search_paths # <<>> THEN "search"
    ELSE "full"

\* C8: the records of a summary response are exactly candidates[s : s+l] of
\* the filtered and sorted candidates, with s reset to 0 when s >= N and the
\* slice running to the end when l = 0 or s + l >= N, in the regex, the
\* search and the full-scan branch; the bounds of the slice stay in [0, N].
C8_PageIsSlice ==
    \A t \in Threads :
        SummaryDone(t) =>
            LET x == ExpectedPage(loc[t].cands, loc[t].dt.dt_start,
                                  loc[t].dt.dt_length)
            IN  /\ resp[t].data = x.recs
                /\ 0 <= x.from /\ x.from <= x.to /\ x.to <= Len(loc[t].cands)

\* C8 witness: a page that starts behind the first candidate and ends
\* before the last one has been returned.
C8_Witness ==
    \E t \in Threads :
        /\ SummaryDone(t)
        /\ Len(loc[t].cands) = 3
        /\ resp[t].data = <<loc[t].cands[2]>>

\* C8 witness of the reset: a start beyond the candidates gave the page
\* from the first candidate on.
C8_WitnessReset ==
    \E t \in Threads :
        /\ SummaryDone(t) /\ Branch(t) = "regex"
        /\ loc[t].dt.dt_start >= Len(loc[t].cands)
        /\ Len(loc[t].cands) = 2
        /\ resp[t].data = <<loc[t].cands[1]>>

\* the locals of the datatable branch have been decoded
Decoded(t) ==
    /\ req[t].ep = "summary" /\ req[t].datatable
    /\ pc[t] \in {"scan", "lock_list", "lock_dev", "page", "serialize"}
       \/ SummaryDone(t)

\* C9: in datatable mode the page length is the requested one when it is in
\* 1..200 and 50 otherwise, a negative start is 0, and the response holds no
\* more records than the page length, so never more than 200.
C9_PageLengthClamped ==
    \A t \in Threads :
        Decoded(t) =>
            LET r == req[t]
                d == loc[t].dt
            IN  /\ r.has_length =>
                      d.dt_length = IF 1 <= r.length /\ r.length <= 200
                                    THEN r.length ELSE 50
                /\ r.has_start =>
                      d.dt_start = IF r.start < 0 THEN 0 ELSE r.start
                /\ 1 <= d.dt_length /\ d.dt_length <= 200
                /\ SummaryDone(t) =>
                      /\ Len(resp[t].data) <= d.dt_length
                      /\ Len(resp[t].data) <= 200

\* C9 witness: a request for 201 records was answered with the default
\* page length.
C9_Witness ==
    \E t \in Threads :
        /\ SummaryDone(t) /\ req[t].datatable
        /\ req[t].has_length /\ req[t].length = 201
        /\ loc[t].dt.dt_length = 50
        /\ resp[t].data # <<>>

\* the records a scan of the store enumerates that pass the request's filter
StoreCandidates(t) ==
    CASE Branch(t) = "regex" ->
            {d \in tracked_map : PcreMatch(d, req[t].regex)}
      [] Branch(t) = "search" ->
            {d \in tracked_map :
                StringMatch(d, req[t].search, loc[t].dt.dt_search_paths)}
      [] OTHER -> tracked_map

\* C10: in a datatable response recordsFiltered is the number of candidates
\* before pagination and recordsTotal the number of records in the store's
\* sequence (the store as the handler saw it: not changed under it).
C10_RecordCounters ==
    \A t \in Threads :
        (SummaryDone(t) /\ req[t].datatable) =>
            /\ resp[t].recordsFiltered = Len(loc[t].cands)
            /\ ~obs[t].changed =>
                  /\ resp[t].recordsTotal = Len(tracked_vec)
                  /\ resp[t].recordsFiltered = Cardinality(StoreCandidates(t))

\* C10 witness: a filtered, paginated datatable response whose three
\* counts differ.
C10_Witness ==
    \E t \in Threads :
        /\ SummaryDone(t) /\ req[t].datatable /\ ~obs[t].changed
        /\ Len(resp[t].data) < resp[t].recordsFiltered
        /\ resp[t].recordsFiltered < resp[t].recordsTotal

(***************************************************************************)
(* Properties of the summary query's plan: filter, sort, wrap.             *)
(***************************************************************************)
\* record d matches the request's search string in a column whose
\* columns[i][searchable] parameter is "true"
FlaggedMatch(d, r) ==
    \E i \in 1 .. Len(r.fields) :
        r.searchable[i] = "true" /\ StringMatch(d, r.search, <<r.fields[i]>>)

\* the candidates the planning order gives: regex before search before the
\* full scan
PlannedCandidates(r) ==
    IF r.regex # 0 THEN {d \in tracked_map : PcreMatch(d, r.regex)}
    ELSE IF r.search # 0 THEN {d \in tracked_map : FlaggedMatch(d, r)}
    ELSE tracked_map

\* C11: the candidates of a summary query are the regex matches when a
\* regex is present (a search string or not), otherwise the substring
\* matches when a search string is present, otherwise the full scan.  (The
\* search string is a datatable parameter, so datatable requests are
\* looked at; the store is the one the handler saw.)
C11_CandidatePrecedence ==
    \A t \in Threads :
        (SummaryDone(t) /\ req[t].datatable /\ ~obs[t].changed) =>
            Range(obs[t].scanned) = PlannedCandidates(req[t])

\* C12: in a datatable summary with a search string and no regex, every
\* record of the response matches the search string in a column flagged
\* searchable, for every number of flagged columns, zero included.
C12_ResponseMatchesSearch ==
    \A t \in Threads :
        (SummaryDone(t) /\ req[t].datatable /\ req[t].search # 0
                        /\ req[t].regex = 0) =>
            \A d \in Range(resp[t].data) : FlaggedMatch(d, req[t])

\* the request names a sort column inside the summary vector
ValidSortColumn(r) ==
    r.datatable /\ r.has_order /\ 0 <= r.order_col /\ r.order_col < Len(r.fields)

\* the summary column the request sorts on
SortColumnPath(r) == r.fields[r.order_col + 1]

\* the values of field f along s never fall (ascending) or never rise
InOrder(s, f, ascending) ==
    \A i, j \in 1 .. Len(s) :
        i < j => IF ascending THEN FieldVal(s[i], f) <= FieldVal(s[j], f)
                 ELSE FieldVal(s[i], f) >= FieldVal(s[j], f)

\* C13: with direction "asc" the candidates are output in ascending order
\* of the sort column's value, with any other direction in descending
\* order.
C13_SortDirection ==
    \A t \in Threads :
        (SummaryDone(t) /\ ValidSortColumn(req[t]) /\ req[t].has_dir) =>
            InOrder(loc[t].cands, SortColumnPath(req[t]), req[t].order_dir = "asc")

\* C14: whenever a valid sort column c is sent, with order[0][dir] or
\* without, the comparator's field path is summary_vec[c].resolved_path and
\* the candidates are ordered by the values at that path.
C14_SortColumnAlwaysUsed ==
    \A t \in Threads :
        (Decoded(t) /\ ValidSortColumn(req[t])) =>
            /\ loc[t].dt.dt_order_field = SortColumnPath(req[t])
            /\ SummaryDone(t) =>
                  \/ InOrder(loc[t].cands, SortColumnPath(req[t]), TRUE)
                  \/ InOrder(loc[t].cands, SortColumnPath(req[t]), FALSE)

\* the position of record d in the sequence s
IndexOf(s, d) == CHOOSE i \in 1 .. Len(s) : s[i] = d

\* the request sends a sort column outside the summary vector
BadSortColumn(r) ==
    r.datatable /\ r.has_order /\ (r.order_col < 0 \/ r.order_col >= Len(r.fields))

\* C15: the sort permutes the candidates and keeps the scan order of
\* records whose sort-column values are equal; sorting the sorted
\* candidates again by the same column and direction changes nothing; a
\* sort column that is negative or not below the summary vector's size
\* selects no column and leaves the candidates in scan order.
C15_SortStable ==
    \A t \in Threads :
        SummaryDone(t) =>
            LET r == req[t]
                before == obs[t].scanned
                after == loc[t].cands
            IN  /\ Len(after) = Len(before) /\ Range(after) = Range(before)
                /\ ValidSortColumn(r) =>
                      \A i, j \in 1 .. Len(before) :
                          (/\ i < j
                           /\ FieldVal(before[i], SortColumnPath(r))
                                  = FieldVal(before[j], SortColumnPath(r)))
                              => IndexOf(after, before[i]) < IndexOf(after, before[j])
                /\ SortCandidates(after, loc[t].dt) = after
                /\ BadSortColumn(r) => (loc[t].dt.dt_order_col < 0 /\ after = before)
                /\ ~r.has_order => after = before

\* C15 witness: three candidates, two of them with equal sort-column
\* values, have been reordered by the sort.
C15_Witness ==
    \E t \in Threads :
        /\ SummaryDone(t) /\ ValidSortColumn(req[t]) /\ req[t].has_dir
        /\ Len(obs[t].scanned) = 3
        /\ loc[t].cands # obs[t].scanned
        /\ \E i, j \in 1 .. 3 :
              /\ i < j
              /\ FieldVal(obs[t].scanned[i], SortColumnPath(req[t]))
                     = FieldVal(obs[t].scanned[j], SortColumnPath(req[t]))

\* C15 witness of the range check: a request with a sort column beyond the
\* summary vector has been answered.
C15_WitnessBadColumn ==
    \E t \in Threads :
        SummaryDone(t) /\ BadSortColumn(req[t]) /\ Len(loc[t].cands) >= 2

\* C16: a datatable response is the map with data, draw, recordsTotal and
\* recordsFiltered, a wrapper name sent or not; outside datatable mode the
\* collection goes under the wrapper name when one is sent and is returned
\* bare otherwise, and carries no counters.
C16_ResponseWrapping ==
    \A t \in Threads :
        SummaryDone(t) =>
            IF req[t].datatable
            THEN /\ resp[t].wrap = "datatable"
                 /\ resp[t].draw = req[t].draw
                 /\ resp[t].recordsTotal >= 0
                 /\ resp[t].recordsFiltered >= 0
            ELSE /\ resp[t].wrap = req[t].wrapper
                 /\ resp[t].recordsTotal = -1
                 /\ resp[t].recordsFiltered = -1

\* C16 witness: a datatable request that also names a wrapper has been
\* answered with the datatable map.
C16_Witness ==
    \E t \in Threads :
        /\ SummaryDone(t) /\ req[t].datatable /\ req[t].wrapper # ""
        /\ resp[t].wrap = "datatable" /\ resp[t].draw = 7
        /\ resp[t].data # <<>>

\* C16 witness outside datatable mode: the collection under its wrapper name.
C16_WitnessNamed ==
    \E t \in Threads :
        /\ SummaryDone(t) /\ ~req[t].datatable
        /\ resp[t].wrap = "wrapped" /\ resp[t].data # <<>>

(***************************************************************************)
(* Properties of the store and of the locks of a query.                    *)
(***************************************************************************)
\* records are numbered in the order of their insertion
InsertionOrdered(s) == \A i, j \in 1 .. Len(s) : i < j => s[i] < s[j]

\* C17: queries leave the store as the mutators made it: tracked_vec holds
\* the records of the primary index in insertion order, and the address
\* index holds the records of every address in insertion order.
C17_QueriesLeaveStore ==
    /\ InsertionOrdered(tracked_vec)
    /\ Range(tracked_vec) = tracked_map
    /\ \A m \in Macs :
          /\ InsertionOrdered(tracked_mac_multimap[m])
          /\ Range(tracked_mac_multimap[m]) = {d \in tracked_map : MacOf(d) = m}

\* the handler is at record-level work: it summarizes the record it locks
\* next, or it serializes
RecordLevelWork(t) ==
    \/ pc[t] = "serialize"
    \/ pc[t] = "lock_dev" /\ loc[t].phase = "page" /\ Summarizes(req[t])

\* C18: no handler holds devicelist_mutex while it summarizes or serializes
\* records; the structural lock covers index lookups and the copy of the
\* sequence only.
C18_ListLockOnlyForLookup ==
    \A t \in Threads : RecordLevelWork(t) => devicelist_mutex # t

\* C19: the record locks a paginated summary query (start and length
\* sent) acquired are those of the records of the returned page, not those
\* of every filter match.
C19_LocksOnlyForPage ==
    \A t \in Threads :
        (SummaryDone(t) /\ req[t].has_start /\ req[t].has_length) =>
            Range(loc[t].lock_vec) = Range(resp[t].data)

(***************************************************************************)
(* Properties of request errors.                                           *)
(***************************************************************************)
\* a POST whose body has no payload, a payload that does not parse, or a
\* rename entry that is not a pair
BadBody(r) ==
    r.method = "POST" /\ r.body \in {"missing", "unparsable", "badrename"}

\* the messages that begin with "Invalid request"
InvalidRequestMessages ==
    {"Invalid request", "Invalid request: Missing data",
     "Invalid request: parse error", "Invalid request: Expected field, rename",
     "Invalid request: unknown field"}

\* C20: Httpd_PostComplete answers a POST with a bad body with status 400
\* and a message beginning "Invalid request", and returns before it takes
\* devicelist_mutex or a device_mutex and before it scans or reads the
\* store.
C20_BadBodyRejectedBeforeLock ==
    \A t \in Threads :
        (Validated(t) /\ obs[t].verified /\ BadBody(req[t])) =>
            /\ pc[t] \in {"post", "done"}
            /\ devicelist_mutex # t /\ HeldRecords(t) = {}
            /\ loc[t].lock_vec = <<>> /\ obs[t].scanned = <<>>
            /\ ~obs[t].under /\ ~obs[t].gone
            /\ Done(t) =>
                  /\ resp[t].httpcode = 400
                  /\ resp[t].body \in InvalidRequestMessages
                  /\ resp[t].data = <<>>
                  /\ resp[t].recordsTotal = -1

\* C20 witness: a summary request with a malformed rename pair has been
\* answered with status 400 over a store that holds records.
C20_Witness ==
    \E t \in Threads :
        /\ Done(t) /\ obs[t].verified
        /\ req[t].ep = "summary" /\ req[t].body = "badrename"
        /\ resp[t].httpcode = 400
        /\ resp[t].body = "Invalid request: Expected field, rename"
        /\ tracked_vec # <<>>

SetNameNoSession(r) ==
    r.method = "POST" /\ r.ep = "by-key" /\ r.target = "set_name" /\ ~r.session

\* C22: no step of a handler that serves a set_name request without a
\* valid session changes a record's fields or an index of the store.
C22_SetNameNeedsSession ==
    [][\A t \in Threads :
          (pc[t] # "idle" /\ pc'[t] # pc[t] /\ SetNameNoSession(req[t])) =>
              UNCHANGED <<tracked_vec, tracked_map, tracked_mac_multimap,
                          last_time, username>>]_vars

\* C22 witness: a set_name request without a session, for a record of the
\* store, has returned; nothing was written to the stream.
C22_Witness ==
    \E t \in Threads :
        /\ Done(t) /\ obs[t].verified /\ ~obs[t].gone /\ SetNameNoSession(req[t])
        /\ req[t].key \in tracked_map
        /\ resp[t].body = "" /\ resp[t].httpcode = 200

\* a last-time request that was answered with a serialized collection
LastTimeServed(t) ==
    Done(t) /\ Served(t) /\ req[t].ep = "last-time" /\ ~obs[t].changed

\* the cutoff as the rule states it: t, or now + t for a negative t
StatedCutoff(r) == IF r.ts >= 0 THEN r.ts ELSE Now + r.ts

\* the records of the scan last seen after the cutoff, in scan order
SeenAfter(r) ==
    SelectSeq(tracked_vec, LAMBDA d : last_time[d] > StatedCutoff(r))

\* C23: a last-time query without a regex (GET, or POST with no regex in
\* the body) returns exactly the records of the scan whose last-seen time
\* is strictly greater than the cutoff, in scan order.
C23_LastTimeCutoff ==
    \A t \in Threads :
        (LastTimeServed(t) /\ (req[t].method = "GET" \/ req[t].regex = 0)) =>
            resp[t].data = SeenAfter(req[t])

\* C23 witness: a query with a negative timestamp returned a record and
\* left out one whose last-seen time equals the cutoff.
C23_Witness ==
    \E t \in Threads :
        /\ LastTimeServed(t) /\ req[t].ts < 0
        /\ resp[t].data # <<>>
        /\ \E d \in tracked_map :
              last_time[d] = Now + req[t].ts /\ d \notin Range(resp[t].data)

\* record d passes the regex of the request, or the request has none
PassesRegex(d, r) == r.regex = 0 \/ PcreMatch(d, r.regex)

\* C24: a POST last-time query returns exactly the records that pass the
\* timestamp filter and, when a regex was sent, the regex filter as well,
\* each once and in scan order.
C24_FiltersCompose ==
    \A t \in Threads :
        (LastTimeServed(t) /\ req[t].method = "POST") =>
            /\ resp[t].data =
                   SelectSeq(SeenAfter(req[t]), LAMBDA d : PassesRegex(d, req[t]))
            /\ Cardinality(Range(resp[t].data)) = Len(resp[t].data)

\* C24 witness: a query with a regex returned a record while the store
\* held one that passes the timestamp filter only and one that passes the
\* regex only.
C24_Witness ==
    \E t \in Threads :
        /\ LastTimeServed(t) /\ req[t].method = "POST" /\ req[t].regex # 0
        /\ resp[t].data # <<>>
        /\ \E d \in Range(SeenAfter(req[t])) : ~PcreMatch(d, req[t].regex)
        /\ \E d \in tracked_map :
              PcreMatch(d, req[t].regex) /\ d \notin Range(SeenAfter(req[t]))

\* C25: a by-mac query (GET or POST) for address a returns every record of
\* the store whose address is a, each once, and no other record, whatever
\* else the store holds.
C25_ByMacReturnsAddressSet ==
    \A t \in Threads :
        (Done(t) /\ Served(t) /\ req[t].ep = "by-mac" /\ ~obs[t].changed) =>
            /\ Range(resp[t].data) = {d \in tracked_map : MacOf(d) = req[t].mac}
            /\ Cardinality(Range(resp[t].data)) = Len(resp[t].data)

\* C25 witness: a POST for an address shared by two records returned both
\* while the store held a record of another address.
C25_Witness ==
    \E t \in Threads :
        /\ Done(t) /\ Served(t) /\ req[t].ep = "by-mac" /\ ~obs[t].changed
        /\ req[t].method = "POST"
        /\ Len(resp[t].data) = 2
        /\ \E d \in tracked_map : MacOf(d) # req[t].mac

\* C25 witness of the GET form.
C25_WitnessGet ==
    \E t \in Threads :
        /\ Done(t) /\ Served(t) /\ req[t].ep = "by-mac" /\ ~obs[t].changed
        /\ req[t].method = "GET"
        /\ Len(resp[t].data) = 2
        /\ \E d \in tracked_map : MacOf(d) # req[t].mac

(***************************************************************************)
(* Properties of lock release and of the export.                           *)
(***************************************************************************)
\* no handler of thread t is running: before validation, between
\* validation and production, or after production
Returned(t) == pc[t] \in {"idle", "create", "post", "done"}

\* C26: when no handler of a thread is running, the thread owns neither
\* devicelist_mutex nor a device_mutex: every exit path released what the
\* handler had acquired.
C26_LocksReleasedAtReturn ==
    \A t \in Threads :
        Returned(t) => (devicelist_mutex # t /\ HeldRecords(t) = {})

\* C26 witness: a handler that had taken the structural lock and two
\* record locks has returned.
C26_Witness ==
    \E t \in Threads :
        /\ Done(t) /\ obs[t].under /\ Len(loc[t].lock_vec) >= 2
        /\ devicelist_mutex # t /\ HeldRecords(t) = {}

\* C26 witness of an error return: a by-mac POST was answered with status
\* 400 from under the structural lock.
C26_WitnessError ==
    \E t \in Threads :
        /\ Done(t) /\ obs[t].verified /\ ~obs[t].gone /\ resp[t].httpcode = 400
        /\ req[t].ep = "by-mac" /\ req[t].body = "ok" /\ req[t].target # "devices"
        /\ devicelist_mutex # t

\* the export has been answered
ExportDone(t) ==
    Done(t) /\ obs[t].verified /\ req[t].method = "GET" /\ req[t].ep = "all_devices"

\* C27: the export all_devices.ekjson writes one document and a newline
\* for each record of the scan, in enumeration order, and nothing else: as
\* many lines as records, under no wrapper and with no aggregate document.
C27_ExportOneLinePerRecord ==
    \A t \in Threads :
        ExportDone(t) =>
            /\ resp[t].body = "lines" /\ resp[t].wrap = "" /\ resp[t].httpcode = 200
            /\ ~obs[t].changed =>
                  (resp[t].data = tracked_vec /\ Len(resp[t].data) = Len(tracked_vec))

\* C27 witness: an export of a store of three records has been written.
C27_Witness ==
    \E t \in Threads :
        /\ ExportDone(t) /\ ~obs[t].changed
        /\ Len(tracked_vec) = 3 /\ Len(resp[t].data) = 3

\* ---------------------------------------------------------------------
\* Properties of the datatable query under concurrency and absent inputs
\* ---------------------------------------------------------------------

\* C28: within one request a record lock is acquired at most once: a handler
\* about to take the device_mutex of a record does not hold it already.
C28_RecordLockedOnce ==
    \A t \in Threads :
        pc[t] = "lock_dev" => device_mutex[Head(loc[t].todo)] # t

\* C29: in every datatable response the counters are mutually consistent,
\* whatever the writer did while the request ran: the number of records in
\* data is at most recordsFiltered, which is at most recordsTotal.
C29_CountersConsistent ==
    \A t \in Threads :
        (SummaryDone(t) /\ req[t].datatable) =>
            /\ Len(resp[t].data) <= resp[t].recordsFiltered
            /\ resp[t].recordsFiltered <= resp[t].recordsTotal

\* C30: a datatable summary query is deterministic in its inputs: two
\* requests with the same body and the same form parameters are paged by the
\* same decoded parameters, also when start or length is not sent; the
\* offset and the length used depend on nothing the request did not supply.
C30_DatatableDeterministic ==
    \A t, u \in Threads :
        (Decoded(t) /\ Decoded(u) /\ req[t] = req[u]) => loc[t].dt = loc[u].dt

====
